---- MODULE Spec2Model ----
(***************************************************************************)
(* Model of tserver.py: the DBAPI request handler (GET /api, POST /api)    *)
(* over a reflected database, a table-keyed Redis cache with expiry, and   *)
(* the ORMBase row helpers (pkey, pval, __eq__, __ne__, to_dict).          *)
(***************************************************************************)
EXTENDS Integers, Sequences, FiniteSets, TLC

(***************************************************************************)
(* Bounds of the model.                                                    *)
(***************************************************************************)
\* largest number of kwargs arguments carried by one request
MaxArgs == 2

\* the primary-key numbers and the names of the rows of table users
Ids == {1, 2}
Names == {"a", "b"}
\* amounts of seconds by which the clock advances in one step
TickSteps == {1799, 1800}
\* request slots; a specification activates a subset of them in its Init
Slots == {1, 2}

(***************************************************************************)
(* Python values.  A value keeps its type and the text str() gives for it, *)
(* so that 1 and '1' (and None and 'None') are different values with the   *)
(* same str().                                                             *)
(***************************************************************************)
PyInt(n) == [ty |-> "int", rep |-> ToString(n)]
PyStr(s) == [ty |-> "str", rep |-> s]
PyNone == [ty |-> "NoneType", rep |-> "None"]

\* str(v) of line 118
str(v) == v.rep

\* k.startswith('_') of line 130
startswith_(k) == Len(k) > 0 /\ SubSeq(k, 1, 1) = "_"

\* the number a value of type int stands for
IntOf(v) == CHOOSE n \in Ids : ToString(n) = v.rep

(***************************************************************************)
(* The reflected schema: Base.prepare(engine, reflect=True) builds one     *)
(* mapped class per table of the database; Base.classes.get(table) gives   *)
(* the class, or None for a name that is no table.                         *)
(***************************************************************************)
NoClass == [tablename |-> "", columns |-> <<>>, primary_key |-> {}]

Classes ==
  [users |-> [tablename |-> "users", columns |-> <<"id", "name">>,
              primary_key |-> {"id"}],
   tags  |-> [tablename |-> "tags", columns |-> <<"user_id", "tag", "_rev">>,
              primary_key |-> {"user_id", "tag"}]]

classes_get(table) == IF table \in DOMAIN Classes THEN Classes[table] ELSE NoClass

Range(s) == {s[i] : i \in DOMAIN s}

\* the elements of sequence s that are in keep, in the order of s
RECURSIVE SelectIn(_, _)
SelectIn(s, keep) ==
  IF s = <<>> THEN <<>>
  ELSE (IF Head(s) \in keep THEN <<Head(s)>> ELSE <<>>) \o SelectIn(Tail(s), keep)

(***************************************************************************)
(* ORMBase.  An instance is vars(self): a function from attribute names to *)
(* values; SQLAlchemy keeps its bookkeeping under _sa_instance_state.      *)
(***************************************************************************)
SaState == [ty |-> "InstanceState", rep |-> "<state>"]

\* attribute read: a column attribute that was never set reads as None
getattr(self, cls, i) == IF i \in DOMAIN self THEN self[i] ELSE PyNone

\* ORMBase.pkey: the names of the primary-key columns, in column order
pkey(cls) == SelectIn(cls.columns, cls.primary_key)

\* ORMBase.pval: tuple(map(str, (getattr(self, i) for i in self.pkey)))
pval(self, cls) == [n \in DOMAIN pkey(cls) |-> str(getattr(self, cls, pkey(cls)[n]))]

\* __eq__ written as a comparison of all the fields
eq_all_fields(self, other, cls) == self = other

\* ORMBase.__eq__
eq(self, other, cls) == pval(self, cls) = pval(other, cls)

\* ORMBase.__ne__
ne(self, other, cls) == pval(self, cls) # pval(other, cls)

\* ORMBase.to_dict
to_dict(self) == [k \in {a \in DOMAIN self : ~startswith_(a)} |-> self[k]]


\* the mapped class's constructor, orm( **kw): kw must be a mapping, and each
\* of its keys an attribute of the class, else TypeError
ctor_ok(cls, kw) == kw.mapping /\ cls # NoClass /\ DOMAIN kw.d \subseteq Range(cls.columns)

ctor(cls, kw) ==
  [k \in DOMAIN kw.d \cup {"_sa_instance_state"} |->
     IF k = "_sa_instance_state" THEN SaState ELSE kw.d[k]]

(***************************************************************************)
(* json.dumps of a list of field-maps.                                     *)
(***************************************************************************)
json_value(v) ==
  CASE v.ty = "int" -> v.rep
    [] v.ty = "str" -> "\"" \o v.rep \o "\""
    [] OTHER -> "null"

RECURSIVE json_join(_, _)
json_join(parts, sep) ==
  IF parts = <<>> THEN ""
  ELSE IF Len(parts) = 1 THEN Head(parts)
  ELSE Head(parts) \o sep \o json_join(Tail(parts), sep)

json_object(d, cls) ==
  LET keys == SelectIn(cls.columns, DOMAIN d)
  IN "{" \o json_join([n \in DOMAIN keys |->
                         "\"" \o keys[n] \o "\": " \o json_value(d[keys[n]])], ", ")
         \o "}"

json_dumps(objs, cls) ==
  "[" \o json_join([n \in DOMAIN objs |-> json_object(objs[n], cls)], ", ") \o "]"

(***************************************************************************)
(* The database behind the engine: db[t] is the set of committed rows of   *)
(* table t, each a record over the table's columns.                        *)
(***************************************************************************)
\* an instance loaded by a query: every column attribute is set
loaded(row) ==
  [k \in DOMAIN row \cup {"_sa_instance_state"} |->
     IF k = "_sa_instance_state" THEN SaState ELSE row[k]]

\* the row an INSERT of an instance stores: unset columns are NULL
stored(self, cls) == [k \in Range(cls.columns) |-> getattr(self, cls, k)]

same_key(r1, r2, cls) == \A k \in cls.primary_key : r1[k] = r2[k]

\* rows in primary-key order, as an unordered SELECT of the table gives them
RECURSIVE in_key_order(_, _)
in_key_order(rows, k) ==
  IF rows = {} THEN <<>>
  ELSE LET first == CHOOSE r \in rows : \A o \in rows : IntOf(r[k]) <= IntOf(o[k])
       IN <<first>> \o in_key_order(rows \ {first}, k)

\* orm_sess.query(orm).all()
query_all(rows, cls) ==
  LET s == in_key_order(rows, pkey(cls)[1]) IN [n \in DOMAIN s |-> loaded(s[n])]

\* the INSERTs of a flush, in order, inside the session's transaction; the
\* database rejects a row whose primary key is already there
RECURSIVE flush(_, _, _)
flush(rows, objs, cls) ==
  IF objs = <<>> THEN [ok |-> TRUE, rows |-> rows]
  ELSE LET new == stored(Head(objs), cls)
       IN IF \E old \in rows : same_key(old, new, cls)
          THEN [ok |-> FALSE, rows |-> rows]
          ELSE flush(rows \cup {new}, Tail(objs), cls)

\* a commit that keeps the INSERTs made before the rejected one
commit_autocommit(rows, objs, cls) == flush(rows, objs, cls)

\* sess.commit(): flush, then COMMIT; a failed flush leaves the transaction
\* to be rolled back, so none of its INSERTs reaches the table
commit(rows, objs, cls) ==
  LET f == flush(rows, objs, cls)
  IN IF f.ok THEN f ELSE [ok |-> FALSE, rows |-> rows]

(***************************************************************************)
(* The Redis cache: cache[k] is the value of a live key k, its age in      *)
(* seconds and the expiry it was stored with.                              *)
(***************************************************************************)
\* an expiry of two hours
TTL_two_hours == 2 * 60 * 60

\* ex=60*60 of line 166
TTL == 60 * 60

Nil == "<None>"

\* cache.keys()
cache_keys(c) == DOMAIN c

\* cache.get(k)
cache_get(c, k) == IF k \in DOMAIN c THEN c[k].val ELSE Nil

\* a store that never reaches Redis
cache_set_lost(c, k, v, ex) == c

\* SET with NX: a key that is there keeps its value and its age
cache_set_nx(c, k, v, ex) ==
  [kk \in DOMAIN c \cup {k} |->
     IF kk \in DOMAIN c THEN c[kk] ELSE [val |-> v, age |-> 0, ex |-> ex]]

\* cache.set(k, v, ex=ex)
cache_set(c, k, v, ex) ==
  [kk \in DOMAIN c \cup {k} |->
     IF kk = k THEN [val |-> v, age |-> 0, ex |-> ex] ELSE c[kk]]

\* d seconds pass: a key whose age reaches its expiry is gone
cache_after(c, d) ==
  [k \in {kk \in DOMAIN c : c[kk].age + d < c[kk].ex} |->
     [c[k] EXCEPT !.age = @ + d]]

(***************************************************************************)
(* tornado.web.RequestHandler: the response under construction.            *)
(***************************************************************************)
NewHandler == [write_buffer |-> "", finished |-> FALSE, status |-> 0, body |-> ""]

Reason(code) ==
  CASE code = 404 -> "Not Found"
    [] code = 400 -> "Bad Request"
    [] OTHER -> "Internal Server Error"

\* self.write(chunk)
write(hd, chunk) == [hd EXCEPT !.write_buffer = @ \o chunk]

\* self.finish(): the buffered body goes out with the status set so far (200)
finish(hd) == [hd EXCEPT !.finished = TRUE, !.status = 200, !.body = hd.write_buffer]

\* self.send_error(code): clear() drops what was written, write_error() writes
\* the error page, finish()
send_error(hd, code) ==
  [hd EXCEPT !.write_buffer = "", !.finished = TRUE, !.status = code,
             !.body = ToString(code) \o ": " \o Reason(code)]

\* _handle_request_exception: an exception that leaves the handler method; once
\* the response is finished nothing more is sent
handle_request_exception(hd, code) ==
  IF hd.finished THEN hd ELSE send_error(hd, code)

(***************************************************************************)
(* Request arguments.  get_arguments('kwargs') is a list.  An element is   *)
(* the text of key=value pairs, which is what Tornado decodes an argument  *)
(* to and on which orm( **kw) raises TypeError, or a mapping of column     *)
(* names to values, which is what the commit path of DBAPI.post is written *)
(* for.  Either way d is the pairs the element stands for.                 *)
(***************************************************************************)
EmptyMap == [k \in {} |-> PyNone]
TextArg(d) == [mapping |-> FALSE, d |-> d]
MapArg(d) == [mapping |-> TRUE, d |-> d]

FieldMaps == {[id |-> PyInt(i), name |-> PyStr(n)] : i \in Ids, n \in Names}

\* the equality constraints a read is asked with: name=a, and nick=a on a
\* column the table does not have
Constraints == {[name |-> PyStr("a")], [nick |-> PyStr("a")]}

RECURSIVE SeqsUpTo(_, _)
SeqsUpTo(S, n) ==
  IF n = 0 THEN {<<>>}
  ELSE LET shorter == SeqsUpTo(S, n - 1)
       IN shorter \cup {Append(s, e) : s \in {t \in shorter : Len(t) = n - 1}, e \in S}

GetKwargs == SeqsUpTo({TextArg(c) : c \in Constraints}, MaxArgs)
PostKwargs ==
  SeqsUpTo({TextArg([id |-> PyInt(1), name |-> PyStr("a")])}
             \cup {MapArg(d) : d \in FieldMaps}, MaxArgs)
TableArgs == {"users", "nope"}

NoRequest == [method |-> "", table |-> "", kwargs |-> <<>>]

\* the states the users table can be in: one row at most per key
TableStates(cls) ==
  {rows \in SUBSET {[id |-> PyInt(i), name |-> PyStr(n)] : i \in Ids, n \in Names} :
     \A r1, r2 \in rows : same_key(r1, r2, cls) => r1 = r2}

VARIABLES
  slots,     \* the request slots in use
  db,        \* db[t]: the committed rows of table t
  cache,     \* the Redis store: live keys with value, age and expiry
  pc,        \* pc[r]: where the handler of slot r stands
  req,       \* req[r]: method, table and kwargs of the request of slot r
  orm_sess,  \* orm_sess[r]: the request's session: unbound, open or closed
  js,        \* js[r]: the local js of DBAPI.get
  hd,        \* hd[r]: the RequestHandler's response
  ev,        \* ev[r]: the calls the request has made, in order
  obj,       \* two instances of one mapped class, for the ORMBase methods
  res        \* the method last applied to them and what it returned

vars == <<slots, db, cache, pc, req, orm_sess, js, hd, ev, obj, res>>

InitState ==
  /\ db \in [DOMAIN Classes -> {{}}]
  /\ cache = EmptyMap
  /\ pc = [r \in Slots |-> "idle"]
  /\ req = [r \in Slots |-> NoRequest]
  /\ orm_sess = [r \in Slots |-> "unbound"]
  /\ js = [r \in Slots |-> ""]
  /\ hd = [r \in Slots |-> NewHandler]
  /\ ev = [r \in Slots |-> <<>>]

NoObj == [table |-> "", r1 |-> EmptyMap, r2 |-> EmptyMap]
NoRes == [op |-> "", val |-> FALSE]

Init == slots = {1} /\ InitState /\ obj = NoObj /\ res = NoRes

\* a request arrives at a free slot and gets a handler of its own
Request(r) ==
  /\ pc[r] = "idle"
  /\ \E method \in {"GET", "POST"}, table \in TableArgs :
       \E kwargs \in IF method = "GET" THEN GetKwargs ELSE PostKwargs :
         req' = [req EXCEPT ![r] = [method |-> method, table |-> table, kwargs |-> kwargs]]
  /\ pc' = [pc EXCEPT ![r] = "start"]
  /\ orm_sess' = [orm_sess EXCEPT ![r] = "unbound"]
  /\ js' = [js EXCEPT ![r] = ""]
  /\ hd' = [hd EXCEPT ![r] = NewHandler]
  /\ ev' = [ev EXCEPT ![r] = <<>>]
  /\ UNCHANGED <<slots, db, cache, obj, res>>

\* the handler of an answered request is dropped
Release(r) ==
  /\ pc[r] = "done"
  /\ pc' = [pc EXCEPT ![r] = "idle"]
  /\ req' = [req EXCEPT ![r] = NoRequest]
  /\ orm_sess' = [orm_sess EXCEPT ![r] = "unbound"]
  /\ js' = [js EXCEPT ![r] = ""]
  /\ hd' = [hd EXCEPT ![r] = NewHandler]
  /\ ev' = [ev EXCEPT ![r] = <<>>]
  /\ UNCHANGED <<slots, db, cache, obj, res>>

\* DBAPI.parse_query
parse_query(rq) == [orm |-> classes_get(rq.table), kwargs |-> rq.kwargs]

\* an exception leaves the handler method
Raise(r, code, sess, calls) ==
  /\ hd' = [hd EXCEPT ![r] = handle_request_exception(@, code)]
  /\ orm_sess' = [orm_sess EXCEPT ![r] = sess]
  /\ ev' = [ev EXCEPT ![r] = @ \o calls]
  /\ pc' = [pc EXCEPT ![r] = "done"]

\* DBAPI.get, lines 158-159: parse_query and the test of cache.keys()
get_lookup(r) ==
  /\ pc[r] = "start" /\ req[r].method = "GET"
  /\ LET orm == parse_query(req[r]).orm IN
       IF orm = NoClass
       THEN \* orm is None: orm.__tablename__ raises AttributeError
            /\ Raise(r, 500, orm_sess[r], <<>>)
            /\ UNCHANGED <<slots, db, cache, req, js>>
       ELSE /\ pc' = [pc EXCEPT ![r] =
                        IF orm.tablename \in cache_keys(cache) THEN "hit" ELSE "miss"]
            /\ ev' = [ev EXCEPT ![r] = @ \o <<"keys">>]
            /\ UNCHANGED <<slots, db, cache, req, orm_sess, js, hd>>
  /\ UNCHANGED <<obj, res>>

\* a hit branch that has a session of its own to close
get_cached_in_session(r) ==
  /\ pc[r] = "hit"
  /\ LET got == cache_get(cache, parse_query(req[r]).orm.tablename)
     IN /\ js' = [js EXCEPT ![r] = got]
        /\ hd' = [hd EXCEPT ![r] = finish(write(@, got))]
        /\ ev' = [ev EXCEPT ![r] = @ \o <<"Session", "get", "write", "close", "finish">>]
        /\ orm_sess' = [orm_sess EXCEPT ![r] = "closed"]
        /\ pc' = [pc EXCEPT ![r] = "done"]
  /\ UNCHANGED <<slots, db, cache, req, obj, res>>

\* DBAPI.get, lines 160 and 167-169 on the branch of a present key
get_cached(r) ==
  /\ pc[r] = "hit"
  /\ LET orm == parse_query(req[r]).orm
         got == cache_get(cache, orm.tablename)
     IN /\ js' = [js EXCEPT ![r] = got]
        /\ IF got = Nil
           THEN \* the key expired since keys(): write(None) raises TypeError
                Raise(r, 500, orm_sess[r], <<"get">>)
           ELSE \* write(js), then orm_sess is an unbound local:
                \* orm_sess.close() raises UnboundLocalError
                /\ hd' = [hd EXCEPT ![r] = handle_request_exception(write(@, got), 500)]
                /\ ev' = [ev EXCEPT ![r] = @ \o <<"get", "write">>]
                /\ pc' = [pc EXCEPT ![r] = "done"]
                /\ UNCHANGED orm_sess
  /\ UNCHANGED <<slots, db, cache, req, obj, res>>

\* a read that stores an empty snapshot before it asks the database
get_query_stored_first(r) ==
  /\ pc[r] = "miss"
  /\ LET p == parse_query(req[r]) IN
       /\ cache' = cache_set(cache, p.orm.tablename, "[]", TTL)
       /\ IF p.kwargs # <<>>
          THEN /\ Raise(r, 500, "open", <<"set", "Session">>)
               /\ UNCHANGED js
          ELSE LET objs == query_all(db[p.orm.tablename], p.orm)
                   dicts == [n \in DOMAIN objs |-> to_dict(objs[n])]
               IN /\ js' = [js EXCEPT ![r] = json_dumps(dicts, p.orm)]
                  /\ orm_sess' = [orm_sess EXCEPT ![r] = "open"]
                  /\ ev' = [ev EXCEPT ![r] = @ \o <<"Session", "query">>]
                  /\ pc' = [pc EXCEPT ![r] = "store"]
                  /\ UNCHANGED hd
  /\ UNCHANGED <<slots, db, req, obj, res>>

\* a read that drops its constraints and asks for every row
get_query_unfiltered(r) ==
  /\ pc[r] = "miss"
  /\ LET p == parse_query(req[r])
         objs == query_all(db[p.orm.tablename], p.orm)
         dicts == [n \in DOMAIN objs |-> to_dict(objs[n])]
     IN /\ js' = [js EXCEPT ![r] = json_dumps(dicts, p.orm)]
        /\ orm_sess' = [orm_sess EXCEPT ![r] = "open"]
        /\ ev' = [ev EXCEPT ![r] = @ \o <<"Session", "query">>]
        /\ pc' = [pc EXCEPT ![r] = "store"]
  /\ UNCHANGED <<slots, db, cache, req, hd, obj, res>>

\* DBAPI.get, lines 162-165: the session, the query and its serialisation
get_query(r) ==
  /\ pc[r] = "miss"
  /\ LET p == parse_query(req[r]) IN
       IF p.kwargs # <<>>
       THEN \* filter_by( **kwargs) with the list kwargs raises TypeError
            /\ Raise(r, 500, "open", <<"Session">>)
            /\ UNCHANGED js
       ELSE LET objs == query_all(db[p.orm.tablename], p.orm)
                dicts == [n \in DOMAIN objs |-> to_dict(objs[n])]
            IN /\ js' = [js EXCEPT ![r] = json_dumps(dicts, p.orm)]
               /\ orm_sess' = [orm_sess EXCEPT ![r] = "open"]
               /\ ev' = [ev EXCEPT ![r] = @ \o <<"Session", "query">>]
               /\ pc' = [pc EXCEPT ![r] = "store"]
               /\ UNCHANGED hd
  /\ UNCHANGED <<slots, db, cache, req, obj, res>>

\* DBAPI.get, lines 166-169 on the branch of an absent key
get_store(r) ==
  /\ pc[r] = "store"
  /\ cache' = cache_set(cache, parse_query(req[r]).orm.tablename, js[r], TTL)
  /\ hd' = [hd EXCEPT ![r] = finish(write(@, js[r]))]
  /\ orm_sess' = [orm_sess EXCEPT ![r] = "closed"]
  /\ ev' = [ev EXCEPT ![r] = @ \o <<"set", "write", "close", "finish">>]
  /\ pc' = [pc EXCEPT ![r] = "done"]
  /\ UNCHANGED <<slots, db, req, js, obj, res>>

\* what DBAPI.post does to the cache: it makes no call on it
post_cache(c, table) == c

\* lines 177-178 and 184-186 when the commit succeeds: write, and in finally
\* close and finish
post_committed(h) ==
  [hd |-> finish(write(h, "success")),
   calls |-> <<"Session", "add_all", "commit", "write", "close", "finish">>]

\* a handler that writes 'success' before it commits
post_rejected_after_write(h) ==
  [hd |-> handle_request_exception(finish(write(h, "success")), 404),
   calls |-> <<"Session", "add_all", "write", "commit", "rollback", "close",
               "error", "close", "finish">>]

\* a handler that closes the session before it rolls back, and whose
\* HTTPError is answered with a page of its own
post_rejected_closed_first(h) ==
  [hd |-> send_error(finish(h), 404),
   calls |-> <<"Session", "add_all", "commit", "close", "rollback", "error",
               "close", "finish", "finish">>]

\* lines 177 and 179-186 when the commit raises: in except rollback, close,
\* logger.error and raise HTTPError(404); in finally close and finish; then
\* the HTTPError leaves post
post_rejected(h) ==
  [hd |-> handle_request_exception(finish(h), 404),
   calls |-> <<"Session", "add_all", "commit", "rollback", "close", "error",
               "close", "finish">>]

\* DBAPI.post
post(r) ==
  /\ pc[r] = "start" /\ req[r].method = "POST"
  /\ LET p == parse_query(req[r]) IN
       IF \E n \in DOMAIN p.kwargs : ~ctor_ok(p.orm, p.kwargs[n])
       THEN \* line 174 raises TypeError, outside the try
            /\ Raise(r, 500, "open", <<"Session">>)
            /\ UNCHANGED db
       ELSE LET objs == [n \in DOMAIN p.kwargs |-> ctor(p.orm, p.kwargs[n])]
                rows == IF p.orm = NoClass THEN {} ELSE db[p.orm.tablename]
                done == commit(rows, objs, p.orm)
                out == IF done.ok THEN post_committed(hd[r]) ELSE post_rejected(hd[r])
            IN /\ db' = IF p.orm = NoClass THEN db
                        ELSE [db EXCEPT ![p.orm.tablename] = done.rows]
               /\ hd' = [hd EXCEPT ![r] = out.hd]
               /\ orm_sess' = [orm_sess EXCEPT ![r] = "closed"]
               /\ ev' = [ev EXCEPT ![r] = @ \o out.calls]
               /\ pc' = [pc EXCEPT ![r] = "done"]
  /\ cache' = post_cache(cache, req[r].table)
  /\ UNCHANGED <<slots, req, js, obj, res>>

\* seconds pass
Tick ==
  /\ cache_keys(cache) # {}
  /\ \E d \in TickSteps : cache' = cache_after(cache, d)
  /\ UNCHANGED <<slots, db, pc, req, orm_sess, js, hd, ev, obj, res>>

\* the users table is changed by another client of the database
Mutate ==
  /\ \E rows \in TableStates(Classes.users) :
       /\ Cardinality((rows \ db.users) \cup (db.users \ rows)) = 1
       /\ db' = [db EXCEPT !.users = rows]
  /\ UNCHANGED <<slots, cache, pc, req, orm_sess, js, hd, ev, obj, res>>

Next ==
  \/ \E r \in slots : Request(r)
  \/ \E r \in slots : get_lookup(r)
  \/ \E r \in slots : get_cached(r)
  \/ \E r \in slots : get_query(r)
  \/ \E r \in slots : get_store(r)
  \/ \E r \in slots : post(r)
  \/ \E r \in slots : Release(r)
  \/ Tick
  \/ Mutate

Spec == Init /\ [][Next]_vars

(***************************************************************************)
(* Two handlers at once, as two server processes on one database and one   *)
(* Redis run them: their calls on the database and on the cache            *)
(* interleave.  The requests are reads and writes of users with one        *)
(* argument at most.                                                       *)
(***************************************************************************)
InitTwo == slots = Slots /\ InitState /\ obj = NoObj /\ res = NoRes

RequestUsers(r) ==
  /\ pc[r] = "idle"
  /\ \E method \in {"GET", "POST"} :
       \E kwargs \in IF method = "GET" THEN {<<>>, <<TextArg([name |-> PyStr("a")])>>}
                     ELSE {<<MapArg([id |-> PyInt(1), name |-> PyStr("a")])>>} :
         req' = [req EXCEPT ![r] = [method |-> method, table |-> "users", kwargs |-> kwargs]]
  /\ pc' = [pc EXCEPT ![r] = "start"]
  /\ orm_sess' = [orm_sess EXCEPT ![r] = "unbound"]
  /\ js' = [js EXCEPT ![r] = ""]
  /\ hd' = [hd EXCEPT ![r] = NewHandler]
  /\ ev' = [ev EXCEPT ![r] = <<>>]
  /\ UNCHANGED <<slots, db, cache, obj, res>>

NextTwo ==
  \/ \E r \in slots : RequestUsers(r)
  \/ \E r \in slots : get_lookup(r)
  \/ \E r \in slots : get_cached(r)
  \/ \E r \in slots : get_query(r)
  \/ \E r \in slots : get_store(r)
  \/ \E r \in slots : post(r)
  \/ \E r \in slots : Release(r)
  \/ Tick
  \/ Mutate

SpecTwo == InitTwo /\ [][NextTwo]_vars

(***************************************************************************)
(* The ORMBase methods on their own: two instances of one mapped class,    *)
(* built from any field-map over part of the class's columns, and the      *)
(* methods applied to them.                                                *)
(***************************************************************************)
RowValues == {PyInt(1), PyStr("1")}

Instances(cls) ==
  {ctor(cls, MapArg(d)) :
     d \in UNION {[S -> RowValues] : S \in SUBSET Range(cls.columns)}}

InitRow ==
  /\ slots = {} /\ InitState
  /\ \E t \in DOMAIN Classes : \E r1, r2 \in Instances(Classes[t]) :
       obj = [table |-> t, r1 |-> r1, r2 |-> r2]
  /\ res = NoRes

RowFrame == UNCHANGED <<slots, db, cache, pc, req, orm_sess, js, hd, ev, obj>>

\* r1 == r2
row_eq ==
  /\ RowFrame
  /\ res' = [op |-> "eq", val |-> eq(obj.r1, obj.r2, Classes[obj.table])]

\* r1 != r2
row_ne ==
  /\ RowFrame
  /\ res' = [op |-> "ne", val |-> ne(obj.r1, obj.r2, Classes[obj.table])]

\* r1.to_dict()
row_to_dict ==
  /\ RowFrame
  /\ res' = [op |-> "to_dict", val |-> to_dict(obj.r1)]

\* orm( **r1.to_dict()).to_dict(): a row of the same class built from the
\* field-map of r1 as line 174 builds one, mapped back
row_round_trip ==
  /\ RowFrame
  /\ ctor_ok(Classes[obj.table], MapArg(to_dict(obj.r1)))
  /\ res' = [op |-> "round_trip",
             val |-> to_dict(ctor(Classes[obj.table], MapArg(to_dict(obj.r1))))]

NextRow ==
  \/ row_eq
  \/ row_ne
  \/ row_to_dict
  \/ row_round_trip

SpecRow == InitRow /\ [][NextRow]_vars

(***************************************************************************)
(* Helpers of the properties.                                              *)
(***************************************************************************)
Called(r, call) == call \in Range(ev[r])
Count(r, call) == Cardinality({n \in DOMAIN ev[r] : ev[r][n] = call})
Contains(s, t) == \E n \in 1..(Len(s) - Len(t) + 1) : SubSeq(s, n, n + Len(t) - 1) = t
KnownTable(r) == req[r].table \in DOMAIN Classes

\* the rows that satisfy every constraint of kwargs
Matching(rows, kwargs) ==
  {row \in rows : \A n \in DOMAIN kwargs : \A k \in DOMAIN kwargs[n].d :
                     k \in DOMAIN row /\ row[k] = kwargs[n].d[k]}

\* the serialised field-maps of a set of rows of class cls
Snapshot(rows, cls) ==
  LET s == in_key_order(rows, pkey(cls)[1]) IN json_dumps(s, cls)

(***************************************************************************)
(* C1.  Session release: when a GET /api or POST /api request has ended,   *)
(* on whatever path, no session the request opened is still open.          *)
(* The code breaks it: a read whose query raises and a write whose row     *)
(* construction raises leave the handler with the session open.            *)
(***************************************************************************)
C1_SessionReleased ==
  \A r \in Slots : pc[r] = "done" => orm_sess[r] # "open"

C3_WriteAtomicity ==
  [][\A r \in Slots :
       (pc[r] = "start" /\ req[r].method = "POST" /\ pc'[r] = "done")
         => \/ db' = db /\ (Called(r, "commit")' => Called(r, "rollback")' \/ req[r].kwargs = <<>>)
            \/ /\ ~Called(r, "rollback")'
               /\ KnownTable(r)
               /\ LET t == req[r].table
                      new == {req[r].kwargs[n].d : n \in DOMAIN req[r].kwargs}
                  IN /\ db' = [db EXCEPT ![t] = db[t] \cup new]
                     /\ Cardinality(db'[t]) = Cardinality(db[t]) + Len(req[r].kwargs)
    ]_vars

\* a write of two rows was rejected on its second row, the first being new
C3_Witness ==
  \E r \in Slots :
    /\ pc[r] = "done" /\ Called(r, "rollback")
    /\ Len(req[r].kwargs) = 2
    /\ \A row \in db.users : row.id # req[r].kwargs[1].d.id

(***************************************************************************)
(* C4.  Cache hit: a GET /api of a known table whose cache entry is live   *)
(* succeeds, and its body is the cached snapshot.                          *)
(* The code breaks it: on the hit branch orm_sess was never bound, so      *)
(* orm_sess.close() raises and the request ends in a 500 error page.       *)
(***************************************************************************)
C4_CacheHitReturnsSnapshot ==
  \A r \in Slots :
    (pc[r] = "done" /\ Called(r, "get") /\ js[r] # Nil)
      => (hd[r].status = 200 /\ hd[r].body = js[r])

(***************************************************************************)
(* C5.  Unknown table: a request that names a table the reflected schema   *)
(* does not have ends with a 4xx response.                                 *)
(* The code breaks it: Base.classes.get gives None, on which GET raises    *)
(* AttributeError (500) and POST raises TypeError (500) or, with no        *)
(* kwargs, answers 200 success.                                            *)
(***************************************************************************)
C5_UnknownTableIs4xx ==
  \A r \in Slots :
    (pc[r] = "done" /\ ~KnownTable(r)) => hd[r].status \in 400..499

(***************************************************************************)
(* C6.  Cache TTL: no live cache entry is 3600 seconds old or older; as    *)
(* seconds pass, an entry that is not overwritten stays, with its          *)
(* snapshot, while fewer than 3600 seconds have passed since its store,    *)
(* and is gone once 3600 have; a lookup takes the hit branch exactly when  *)
(* such an entry is there, and cache.get then gives its snapshot.          *)
(***************************************************************************)
C6_CacheTTL ==
  [][/\ \A k \in DOMAIN cache' : cache'[k].age < 3600
     /\ (\A r \in Slots : ~(pc[r] = "store" /\ pc'[r] = "done"))
          => \E d \in TickSteps \cup {0} : \A k \in DOMAIN cache :
               IF cache[k].age + d < 3600
               THEN /\ k \in DOMAIN cache'
                    /\ cache'[k].val = cache[k].val
                    /\ cache'[k].age = cache[k].age + d
               ELSE k \notin DOMAIN cache'
     /\ \A r \in Slots :
          (pc[r] = "start" /\ pc'[r] \in {"hit", "miss"})
            => (pc'[r] = "hit" <=> req[r].table \in DOMAIN cache)
     /\ \A r \in Slots :
          (pc[r] = "hit" /\ pc'[r] = "done" /\ req[r].table \in DOMAIN cache)
            => js'[r] = cache[req[r].table].val
    ]_vars

\* a lookup took the hit branch on an entry one second short of its expiry
C6_Witness ==
  \E r \in Slots :
    /\ pc[r] = "hit"
    /\ req[r].table \in DOMAIN cache
    /\ cache[req[r].table].age = 3599

(***************************************************************************)
(* C7.  Query filtering: a read that misses the cache ends its query with  *)
(* exactly the rows of the table that satisfy every constraint (all rows   *)
(* when there is none), serialised.                                        *)
(* The code breaks it: kwargs is the list get_arguments gives, and         *)
(* filter_by( **kwargs) on a non-empty list raises TypeError.              *)
(***************************************************************************)
C7_FilteredRead ==
  [][\A r \in Slots :
       (pc[r] = "miss" /\ pc'[r] # "miss")
         => /\ pc'[r] = "store"
            /\ js'[r] = Snapshot(Matching(db[req[r].table], req[r].kwargs),
                                 Classes[req[r].table])
    ]_vars

\* the primary-key values of an instance, in column order, as they are
PkValues(self, cls) ==
  [n \in DOMAIN pkey(cls) |-> getattr(self, cls, pkey(cls)[n])]

ObjClass == Classes[obj.table]

(***************************************************************************)
(* C8 as claimed.  r1 == r2 exactly when the tuples of the primary-key     *)
(* values of r1 and r2 are equal, and r1 != r2 exactly when they are not.  *)
(* It fails: pval compares str() of the values, so keys 1 and '1' are      *)
(* equal rows.                                                             *)
(***************************************************************************)
C8_EqIffSameKeyValues ==
  /\ res.op = "eq" => (res.val <=> PkValues(obj.r1, ObjClass) = PkValues(obj.r2, ObjClass))
  /\ res.op = "ne" => (res.val <=> PkValues(obj.r1, ObjClass) # PkValues(obj.r2, ObjClass))

(***************************************************************************)
(* C8, amended.  r1 == r2 exactly when str() of every primary-key column   *)
(* is the same text for r1 and r2, whatever the other columns hold; so     *)
(* rows with equal primary-key values are equal; and r1 != r2 is the       *)
(* negation.                                                               *)
(***************************************************************************)
C8_EqIffSameKeyText ==
  LET same_text == \A k \in ObjClass.primary_key :
                     str(getattr(obj.r1, ObjClass, k)) = str(getattr(obj.r2, ObjClass, k))
      same_values == PkValues(obj.r1, ObjClass) = PkValues(obj.r2, ObjClass)
  IN /\ res.op = "eq" => /\ res.val <=> same_text
                         /\ same_values => res.val
     /\ res.op = "ne" => /\ res.val <=> ~same_text
                         /\ same_values => ~res.val

\* two rows with the same key and different other columns compared equal
C8_Witness ==
  /\ res.op = "eq" /\ res.val
  /\ PkValues(obj.r1, ObjClass) = PkValues(obj.r2, ObjClass)
  /\ \E k \in Range(ObjClass.columns) \ ObjClass.primary_key :
       getattr(obj.r1, ObjClass, k) # getattr(obj.r2, ObjClass, k)

(***************************************************************************)
(* C9.  Round trip: a row built from to_dict(r) maps back to to_dict(r);   *)
(* the field-map holds every declared column of r and no key beginning     *)
(* with '_'.                                                               *)
(* The code breaks the second part: to_dict goes over vars(self), which    *)
(* lacks the columns never set on r, and drops a declared column whose     *)
(* name begins with '_'.                                                   *)
(***************************************************************************)
C9_RoundTrip ==
  /\ res.op = "round_trip" => res.val = to_dict(obj.r1)
  /\ res.op = "to_dict" =>
       /\ Range(ObjClass.columns) \subseteq DOMAIN res.val
       /\ \A k \in DOMAIN res.val : SubSeq(k, 1, 1) # "_"

PostStep(r) == pc[r] = "start" /\ req[r].method = "POST" /\ pc'[r] = "done"

\* slot w holds an answered write of one row whose commit succeeded
Wrote(w) ==
  /\ pc[w] = "done" /\ req[w].method = "POST"
  /\ Called(w, "commit") /\ ~Called(w, "rollback")
  /\ Len(req[w].kwargs) = 1

C12_CoarseCacheKey ==
  [][/\ DOMAIN cache' \subseteq DOMAIN Classes
     /\ \A r \in Slots :
          LET t == req[r].table IN
          /\ (pc[r] = "miss" /\ pc'[r] # "miss" /\ req[r].kwargs # <<>>)
               => pc'[r] = "store"
          /\ (pc[r] = "store" /\ pc'[r] = "done")
               => t \in DOMAIN cache' /\ cache'[t].val = js[r]
          /\ (pc[r] = "hit" /\ pc'[r] = "done" /\ t \in DOMAIN cache)
               => hd'[r].status = 200 /\ hd'[r].body = cache[t].val
    ]_vars

\* slot r makes the step of lines 166-169: the store, the write and the finish
StoreStep(r) == pc[r] = "store" /\ pc'[r] = "done"

Missed(r) ==
  /\ req[r].method = "GET" /\ pc[r] \in {"miss", "store", "done"}
  /\ Called(r, "keys") /\ ~Called(r, "get")

(***************************************************************************)
(* C14.  Concurrent misses: when two reads of one table have both found    *)
(* no live entry, neither holds the other up: a step of one leaves the     *)
(* other where it was, each goes from its query to its own store or to an  *)
(* error answer, and a read that has its snapshot can always store it.  A  *)
(* store writes the storing handler's snapshot over whatever entry is      *)
(* there, with age zero and the full expiry, and answers 200; so once      *)
(* both have stored, the entry, while it lives, is the snapshot of the     *)
(* one that stored last.                                                   *)
(***************************************************************************)
C14_ConcurrentMisses ==
  [][\A r, o \in Slots :
       (r # o /\ Missed(r) /\ Missed(o) /\ req[r].table = req[o].table)
         => /\ pc[r] = "store" => ENABLED get_store(r)
            /\ (pc[r] = "miss" /\ pc'[r] # "miss")
                 => /\ pc'[r] \in {"store", "done"}
                    /\ req[r].kwargs = <<>> => pc'[r] = "store"
            /\ pc'[r] # pc[r]
                 => /\ pc'[o] = pc[o] /\ js'[o] = js[o] /\ hd'[o] = hd[o]
                    /\ orm_sess'[o] = orm_sess[o] /\ ev'[o] = ev[o]
            /\ StoreStep(r)
                 => /\ req[r].table \in DOMAIN cache'
                    /\ cache'[req[r].table] = [val |-> js[r], age |-> 0, ex |-> 3600]
                    /\ hd'[r].status = 200 /\ hd'[r].body = js[r]
            /\ (Called(r, "set") /\ Called(o, "set") /\ req[r].table \in DOMAIN cache)
                 => cache[req[r].table].val \in {js[r], js[o]}
    ]_vars

\* both reads made their own query and their own store, their snapshots
\* differ, and the entry is the one of the read that stored last
C14_Witness ==
  /\ Missed(1) /\ Missed(2) /\ req[1].table = req[2].table
  /\ Called(1, "query") /\ Called(2, "query")
  /\ Called(1, "set") /\ Called(2, "set")
  /\ hd[1].status = 200 /\ hd[2].status = 200
  /\ js[1] # js[2]
  /\ req[1].table \in DOMAIN cache
  /\ cache[req[1].table] = [val |-> js[2], age |-> 0, ex |-> 3600]

\* the constraint set of the read in slot r names a column its table lacks
UnknownColumn(r) ==
  /\ req[r].method = "GET" /\ KnownTable(r)
  /\ \E n \in DOMAIN req[r].kwargs :
       ~(DOMAIN req[r].kwargs[n].d \subseteq Range(Classes[req[r].table].columns))

(***************************************************************************)
(* C15.  Unknown column: a read whose constraint set names a column that   *)
(* its table does not have fails.  No step of it changes the cache or      *)
(* takes it to the store, and it ends with an error status and a body      *)
(* that is not the serialisation of the table's rows.                      *)
(***************************************************************************)
C15_UnknownColumnFails ==
  [][\A r \in Slots :
       (UnknownColumn(r) /\ pc'[r] # pc[r])
         => /\ cache' = cache
            /\ pc'[r] # "store"
            /\ pc'[r] = "done"
                 => /\ hd'[r].status >= 400
                    /\ hd'[r].body # Snapshot(db[req[r].table], Classes[req[r].table])
                    /\ "set" \notin Range(ev'[r])
    ]_vars

\* a read on the column nick of users, which has rows and no cache entry,
\* has reached the database and has been answered with an error
C15_Witness ==
  \E r \in Slots :
    /\ UnknownColumn(r) /\ pc[r] = "done"
    /\ Called(r, "Session")
    /\ db[req[r].table] # {}
    /\ req[r].table \notin DOMAIN cache
    /\ hd[r].status = 500

(***************************************************************************)
(* C16.  No session on a hit: the step a read makes on the branch of a     *)
(* present key opens no session and makes no query, and leaves the         *)
(* database as it is; a read comes to hold an open session only by a step  *)
(* on the branch of an absent key.                                         *)
(***************************************************************************)
C16_NoSessionOnHit ==
  [][\A r \in Slots :
       /\ (pc[r] = "hit" /\ pc'[r] # "hit")
            => /\ orm_sess'[r] = "unbound"
               /\ "Session" \notin Range(ev'[r])
               /\ "query" \notin Range(ev'[r])
               /\ db' = db
       /\ (req[r].method = "GET" /\ pc[r] # "idle"
             /\ (orm_sess'[r] # orm_sess[r] \/ Count(r, "Session")' # Count(r, "Session")))
            => \/ pc[r] = "miss"
               \/ pc[r] = "store" /\ orm_sess'[r] = "closed"
               \/ pc'[r] = "idle"
    ]_vars

\* a read has taken the branch of a present key, read the live entry and
\* been answered, and holds no session
C16_Witness ==
  \E r \in Slots :
    /\ pc[r] = "done" /\ req[r].method = "GET"
    /\ Called(r, "get") /\ Called(r, "write")
    /\ orm_sess[r] = "unbound" /\ ~Called(r, "Session")

\* the place of the first call of that name in the call trace s, 0 if none
First(s, call) ==
  IF call \in Range(s)
  THEN CHOOSE n \in DOMAIN s : s[n] = call /\ \A m \in 1..(n - 1) : s[m] # call
  ELSE 0

\* the rows the write in slot r asks to insert, as the table stores them
RowsOf(r) ==
  {stored(ctor(Classes[req[r].table], req[r].kwargs[n]), Classes[req[r].table]) :
     n \in DOMAIN req[r].kwargs}

(***************************************************************************)
(* C17.  'success' only after commit: when DBAPI.post has written          *)
(* 'success', into its buffer or into the body that went out, its commit   *)
(* was called before the write and did not fail, and every row of the      *)
(* request is in the table; when the commit failed, nothing was written,   *)
(* the answer does not carry 'success' and the table is as it was.         *)
(***************************************************************************)
C17_SuccessOnlyAfterCommit ==
  [][\A r \in Slots :
       PostStep(r)
         => /\ (Contains(hd'[r].write_buffer, "success") \/ Contains(hd'[r].body, "success"))
                 => /\ First(ev'[r], "commit") > 0
                    /\ First(ev'[r], "commit") < First(ev'[r], "write")
                    /\ "rollback" \notin Range(ev'[r])
                    /\ KnownTable(r) => RowsOf(r) \subseteq db'[req[r].table]
            /\ "rollback" \in Range(ev'[r])
                 => /\ "write" \notin Range(ev'[r])
                    /\ ~Contains(hd'[r].write_buffer, "success")
                    /\ ~Contains(hd'[r].body, "success")
                    /\ db' = db
    ]_vars

\* a write of two rows has been answered 'success' and both rows are in
\* the table
C17_Witness ==
  \E r \in Slots :
    /\ pc[r] = "done" /\ req[r].method = "POST" /\ KnownTable(r)
    /\ Len(req[r].kwargs) = 2
    /\ hd[r].status = 200 /\ hd[r].body = "success"
    /\ Cardinality(RowsOf(r)) = 2 /\ RowsOf(r) \subseteq db[req[r].table]

(***************************************************************************)
(* C18.  A failed read stores nothing: a read on the branch of an absent   *)
(* key whose query raises leaves every cache entry as it was and never     *)
(* calls cache.set; the store comes after the query and after the          *)
(* serialisation of its rows, which is what it stores; and no read that    *)
(* ends with an error status has changed the cache by the step that ends   *)
(* it.                                                                     *)
(***************************************************************************)
C18_FailedReadStoresNothing ==
  [][\A r \in Slots :
       /\ (pc[r] = "miss" /\ pc'[r] = "done")
            => /\ cache' = cache
               /\ "set" \notin Range(ev'[r])
               /\ hd'[r].status >= 400
       /\ "set" \in Range(ev'[r])
            => /\ 0 < First(ev'[r], "query")
               /\ First(ev'[r], "query") < First(ev'[r], "set")
       /\ StoreStep(r)
            => \E rows \in TableStates(Classes[req[r].table]) :
                 cache'[req[r].table].val = Snapshot(rows, Classes[req[r].table])
       /\ (req[r].method = "GET" /\ pc[r] # "done" /\ pc'[r] = "done"
             /\ hd'[r].status # 200)
            => cache' = cache
    ]_vars

\* a read on the column name of users found no entry, its query raised,
\* and there is still no entry
C18_Witness ==
  \E r \in Slots :
    /\ pc[r] = "done" /\ req[r].method = "GET" /\ KnownTable(r)
    /\ req[r].kwargs # <<>> /\ ~UnknownColumn(r)
    /\ Called(r, "keys") /\ Called(r, "Session") /\ ~Called(r, "set")
    /\ hd[r].status = 500
    /\ req[r].table \notin DOMAIN cache

(***************************************************************************)
(* C19.  Order on a failed commit: when the commit of DBAPI.post has       *)
(* failed the handler has called, in this order, rollback, close, the      *)
(* error log and finish; no close comes before the rollback; and on every  *)
(* path that reached the commit, failed or not, finish was called once     *)
(* and the response that went out is the one it sent.                      *)
(***************************************************************************)
C19_FailureOrder ==
  \A r \in Slots :
    (pc[r] = "done" /\ req[r].method = "POST" /\ Called(r, "commit"))
      => /\ Count(r, "finish") = 1
         /\ hd[r].finished /\ hd[r].status = 200 /\ hd[r].body = hd[r].write_buffer
         /\ First(ev[r], "commit") < First(ev[r], "finish")
         /\ Called(r, "rollback")
              => /\ Count(r, "rollback") = 1
                 /\ First(ev[r], "commit") < First(ev[r], "rollback")
                 /\ First(ev[r], "rollback") < First(ev[r], "close")
                 /\ First(ev[r], "close") < First(ev[r], "error")
                 /\ First(ev[r], "error") < First(ev[r], "finish")
                 /\ ev[r][Len(ev[r])] = "finish"

\* a write of two rows, the second of them on a key that is taken, has
\* been rolled back and answered
C19_Witness ==
  \E r \in Slots :
    /\ pc[r] = "done" /\ req[r].method = "POST"
    /\ Len(req[r].kwargs) = 2
    /\ Called(r, "rollback") /\ Called(r, "error")
    /\ hd[r].finished

====
